---- MODULE Spec2Model ----
(***************************************************************************)
(* Model of the VerticalRuler component (src/src/VerticalRuler.tsx): the   *)
(* React state of the component, the closures that capture it, the         *)
(* imperative handle, the +/- buttons and the PanResponder drag handlers.  *)
(*                                                                         *)
(* Numbers are exact rationals <<n, d>> (d > 0, lowest terms), so that     *)
(* steps such as 0.5, values such as 61.3 and conversion factors such as   *)
(* 1/2.54 are represented without rounding.                                *)
(***************************************************************************)
EXTENDS Integers, Sequences, FiniteSets, TLC

\* ------------------------------------------------------------------------
\* Rational arithmetic
\* ------------------------------------------------------------------------
IAbs(i) == IF i < 0 THEN -i ELSE i

RECURSIVE GCD(_, _)
GCD(a, b) == IF b = 0 THEN a ELSE GCD(b, a % b)

Norm(n, d) ==
    IF d = 1
    THEN <<n, 1>>
    ELSE LET g == GCD(IAbs(n), IAbs(d))
         IN  IF d < 0 THEN <<(-n) \div g, (-d) \div g>> ELSE <<n \div g, d \div g>>

R(i) == <<i, 1>>
Q(n, d) == Norm(n, d)

LCM(a, b) == (a \div GCD(a, b)) * b

\* Sums and comparisons over the least common denominator, products with
\* cross-cancellation, so that intermediate integers stay small
RAdd(a, b) ==
    IF a[2] = b[2]
    THEN Norm(a[1] + b[1], a[2])
    ELSE LET g == GCD(a[2], b[2])
         IN  Norm(a[1] * (b[2] \div g) + b[1] * (a[2] \div g), (a[2] \div g) * b[2])
RNeg(a) == <<-a[1], a[2]>>
RSub(a, b) == RAdd(a, RNeg(b))
RMul(a, b) ==
    IF a[2] = 1 /\ b[2] = 1
    THEN <<a[1] * b[1], 1>>
    ELSE LET g1 == GCD(IAbs(a[1]), b[2])
             g2 == GCD(IAbs(b[1]), a[2])
         IN  Norm((a[1] \div g1) * (b[1] \div g2), (a[2] \div g2) * (b[2] \div g1))
RInv(b) == IF b[1] < 0 THEN <<-b[2], -b[1]>> ELSE <<b[2], b[1]>>
RDiv(a, b) == RMul(a, RInv(b))
RLt(a, b) ==
    IF a[2] = b[2]
    THEN a[1] < b[1]
    ELSE LET g == GCD(a[2], b[2])
         IN  a[1] * (b[2] \div g) < b[1] * (a[2] \div g)
RLe(a, b) == ~RLt(b, a)
RAbs(a) == <<IAbs(a[1]), a[2]>>
RFloor(a) == a[1] \div a[2]
IsInt(a) == a[2] = 1

\* Math.min / Math.max
MathMin(a, b) == IF RLe(a, b) THEN a ELSE b
MathMax(a, b) == IF RLe(a, b) THEN b ELSE a

\* A variant of Math.round that rounds ties away from zero
MathRoundHalfAway(a) ==
    IF a[1] >= 0
    THEN RFloor(RAdd(a, Q(1, 2)))
    ELSE -RFloor(RAdd(RNeg(a), Q(1, 2)))

\* Math.round: the nearest integer, ties towards +Infinity (floor(x + 1/2))
MathRound(a) == RFloor(RAdd(a, Q(1, 2)))

\* ------------------------------------------------------------------------
\* Units
\* ------------------------------------------------------------------------
NoConvert == "none"

\* The three built-in convertTo functions of DEFAULT_CONFIG.units
CmConvertTo(v, target) ==
    IF target.symbol = "in" THEN RDiv(v, Q(254, 100))
    ELSE IF target.symbol = "ft" THEN RDiv(v, Q(3048, 100))
    ELSE v

InConvertTo(v, target) ==
    IF target.symbol = "cm" THEN RMul(v, Q(254, 100))
    ELSE IF target.symbol = "ft" THEN RDiv(v, R(12))
    ELSE v

FtConvertTo(v, target) ==
    IF target.symbol = "cm" THEN RMul(v, Q(3048, 100))
    ELSE IF target.symbol = "in" THEN RMul(v, R(12))
    ELSE v

\* unit.convertTo(value, targetUnit), dispatched on the function the unit carries
ApplyConvertTo(unit, v, target) ==
    CASE unit.convertTo = "cm"  -> CmConvertTo(v, target)
      [] unit.convertTo = "in"  -> InConvertTo(v, target)
      [] unit.convertTo = "ft"  -> FtConvertTo(v, target)
      [] OTHER -> v

DefaultUnits ==
    << [symbol |-> "cm", convertTo |-> "cm"],
       [symbol |-> "in", convertTo |-> "in"],
       [symbol |-> "ft", convertTo |-> "ft"] >>

\* A registry whose first unit carries no convertTo function
PlainUnits ==
    << [symbol |-> "pt", convertTo |-> NoConvert],
       [symbol |-> "in", convertTo |-> "in"],
       [symbol |-> "cm", convertTo |-> "cm"] >>

\* ------------------------------------------------------------------------
\* Configuration (the resolved props of one render)
\* ------------------------------------------------------------------------
DEFAULT_CONFIG ==
    [ minValue |-> R(150), maxValue |-> R(220), step |-> R(1),
      unit |-> "cm", units |-> DefaultUnits, defaultUnitIndex |-> 0,
      showUnitSwitcher |-> FALSE, enableButtons |-> TRUE,
      rulerHeight |-> R(400), tickInterval |-> R(5),
      magnificationRadius |-> R(80), maxScale |-> Q(3, 2),
      enableMagnification |-> TRUE,
      colors |-> [ primary |-> "#8F917C", primaryLight |-> "#EBDBD3",
                   accent |-> "#D0BEA3", warning |-> "#F59E0B",
                   background |-> "#F5F4F7", textPrimary |-> "#1A1A1A",
                   textSecondary |-> "#8F917C", white |-> "#FFFFFF" ],
      spacing |-> [xs |-> 4, sm |-> 8, md |-> 16, lg |-> 24, xl |-> 32, xxl |-> 48],
      fontSize |-> [xs |-> 12, sm |-> 14, md |-> 16, lg |-> 18, xl |-> 20],
      borderRadius |-> [sm |-> 6, md |-> 12, lg |-> 16, xl |-> 20],
      cursorProps |-> [ height |-> 4, width |-> "100%", marginTop |-> -2,
                        paddingLeft |-> 8, borderRadius |-> 6 ],
      onValueChange |-> "onValueChange", onUnitChange |-> "onUnitChange" ]

\* The nested groups of the configuration
NestedGroups == {"colors", "spacing", "fontSize", "borderRadius", "cursorProps"}

\* {...a, ...b}: the keys of b override those of a (b may be undefined)
Spread(a, b) ==
    [k \in DOMAIN a \cup DOMAIN b |-> IF k \in DOMAIN b THEN b[k] ELSE a[k]]

\* config = {...DEFAULT_CONFIG, colors: {...DEFAULT_CONFIG.colors,
\* ...props.colors}, (the other groups likewise), ...props}
Merge(props) ==
    LET groups == [g \in NestedGroups |->
                      IF g \in DOMAIN props
                      THEN Spread(DEFAULT_CONFIG[g], props[g])
                      ELSE DEFAULT_CONFIG[g]]
    IN  Spread(Spread(DEFAULT_CONFIG, groups), props)

\* The props the component is mounted with (one is chosen at mount): only
\* enableButtons (its default), the README weight selector with its partial
\* colors and a tick every 10 kg (in whose range the built-in cm -> in conversion of a large value
\* stays), and a range whose bounds are not multiples of the step, with
\* magnification off and a unit that has no convertTo.
Props ==
    { [enableButtons |-> TRUE],
      [minValue |-> R(40), maxValue |-> R(150), step |-> Q(1, 2), unit |-> "kg",
       tickInterval |-> R(10),
       colors |-> [ primary |-> "#FF6B6B", primaryLight |-> "#FFE0E0",
                    warning |-> "#FF6B6B" ]],
      [minValue |-> R(1), maxValue |-> R(10), step |-> R(4),
       rulerHeight |-> R(100), tickInterval |-> R(4),
       units |-> PlainUnits, enableMagnification |-> FALSE] }

Configs == { Merge(p) : p \in Props }

ValidConfig(c) ==
    /\ RLt(c.minValue, c.maxValue)
    /\ RLt(R(0), c.step)
    /\ RLt(R(0), c.tickInterval)
    /\ RLt(R(0), c.rulerHeight)

\* ------------------------------------------------------------------------
\* Pure parts of the handlers
\* ------------------------------------------------------------------------
\* ((maxValue - v) / (maxValue - minValue)) * RULER_HEIGHT
PositionOf(c, v) ==
    RMul(RDiv(RSub(c.maxValue, v), RSub(c.maxValue, c.minValue)), c.rulerHeight)

\* A variant of the loop below that stops before maxValue
RECURSIVE TicksFromExclusive(_, _)
TicksFromExclusive(c, v) ==
    IF RLt(v, c.maxValue)
    THEN <<[value |-> v, position |-> PositionOf(c, v)]>>
         \o TicksFromExclusive(c, RAdd(v, c.tickInterval))
    ELSE << >>

\* for (let v = minValue; v <= maxValue; v += tickInterval) tickArray.push(...)
RECURSIVE TicksFrom(_, _)
TicksFrom(c, v) ==
    IF RLe(v, c.maxValue)
    THEN <<[value |-> v, position |-> PositionOf(c, v)]>>
         \o TicksFrom(c, RAdd(v, c.tickInterval))
    ELSE << >>

Ticks(c) == TicksFrom(c, c.minValue)

TickValues(ts) == {ts[i].value : i \in DOMAIN ts}

\* Variants of the three definitions below with one plausible slip each
ScaleValueGrowing(c, tick, cursorY) ==
    LET distance == RAbs(RSub(tick.position, cursorY))
    IN  IF RLt(distance, c.magnificationRadius)
        THEN LET proximity == RDiv(distance, c.magnificationRadius)
             IN  RAdd(R(1), RMul(proximity, RSub(c.maxScale, R(1))))
        ELSE R(1)

UpdateTickScalesAlways(c, ts, m, cursorY) ==
    [tv \in DOMAIN m |->
        LET hit == {i \in DOMAIN ts : ts[i].value = tv}
            tick == ts[CHOOSE i \in hit : TRUE]
            distance == RAbs(RSub(tick.position, cursorY))
        IN  IF hit = {} \/ ~RLt(distance, c.magnificationRadius)
            THEN m[tv]
            ELSE RAdd(R(1), RMul(RSub(R(1), RDiv(distance, c.magnificationRadius)),
                                 RSub(c.maxScale, R(1))))]

UpdateTickScalesReset(c, ts, m, cursorY) == [tv \in DOMAIN m |-> R(1)]

ResetTickScalesKept(ts, m) == m

\* The scale updateTickScales gives one tick for the cursor at cursorY
ScaleValue(c, tick, cursorY) ==
    LET distance == RAbs(RSub(tick.position, cursorY))
    IN  IF RLt(distance, c.magnificationRadius)
        THEN LET proximity == RSub(R(1), RDiv(distance, c.magnificationRadius))
             IN  RAdd(R(1), RMul(proximity, RSub(c.maxScale, R(1))))
        ELSE R(1)

\* updateTickScales(cursorY) of the render whose configuration is c: the
\* scale targets after its forEach ran over the ticks ts with the scale map
\* m (a tick without an entry in m is skipped, an entry without a tick stays)
UpdateTickScales(c, ts, m, cursorY) ==
    IF ~c.enableMagnification
    THEN m
    ELSE [tv \in DOMAIN m |->
            LET hit == {i \in DOMAIN ts : ts[i].value = tv}
            IN  IF hit = {}
                THEN m[tv]
                ELSE ScaleValue(c, ts[CHOOSE i \in hit : TRUE], cursorY)]

\* The release handler: every tick of ts that has a scale eases back to 1
ResetTickScales(ts, m) ==
    [tv \in DOMAIN m |-> IF tv \in TickValues(ts) THEN R(1) ELSE m[tv]]

\* Variants with one plausible slip each, used to show that the properties
\* below depend on the definition they replace
IncrementValueUnclamped(c, v) == RAdd(v, c.step)

ClampedDragUnclamped(c, pageY, topY) == RSub(pageY, topY)

ClampedDragTopOnly(c, pageY, topY) == MathMax(R(0), RSub(pageY, topY))

ClampValueNone(c, v) == v

ClampValueSnapped(c, v) ==
    LET snapped == RMul(R(MathRound(RDiv(v, c.step))), c.step)
    IN  MathMax(c.minValue, MathMin(c.maxValue, snapped))

SameIndexNever(index, current) == FALSE

ConvertedValueByTarget(units, from, to, v) ==
    LET targetUnit == units[to + 1]
    IN  IF targetUnit.convertTo # NoConvert
        THEN ApplyConvertTo(targetUnit, v, targetUnit)
        ELSE v

\* Math.min(maxValue, value + step)
IncrementValue(c, v) == MathMin(c.maxValue, RAdd(v, c.step))

\* Math.max(minValue, value - step)
DecrementValue(c, v) == MathMax(c.minValue, RSub(v, c.step))

\* Math.max(minValue, Math.min(maxValue, newValue))
ClampValue(c, v) == MathMax(c.minValue, MathMin(c.maxValue, v))

\* Math.max(0, Math.min(RULER_HEIGHT, pageY - rulerTopYRef.current))
ClampedDrag(c, pageY, topY) ==
    MathMax(R(0), MathMin(c.rulerHeight, RSub(pageY, topY)))

\* maxValue - percentage * (maxValue - minValue), percentage = clampedDrag / RULER_HEIGHT
RawValue(c, clampedDrag) ==
    RSub(c.maxValue,
         RMul(RDiv(clampedDrag, c.rulerHeight), RSub(c.maxValue, c.minValue)))

\* Math.round(newValue / step) * step
SteppedValue(c, newValue) ==
    RMul(R(MathRound(RDiv(newValue, c.step))), c.step)

\* (clampedDrag / RULER_HEIGHT) * RULER_HEIGHT
DragPosition(c, clampedDrag) ==
    RMul(RDiv(clampedDrag, c.rulerHeight), c.rulerHeight)

\* currentUnit.convertTo ? currentUnit.convertTo(value, targetUnit) : value
ConvertedValue(units, from, to, v) ==
    LET currentUnit == units[from + 1]
        targetUnit == units[to + 1]
    IN  IF currentUnit.convertTo # NoConvert
        THEN ApplyConvertTo(currentUnit, v, targetUnit)
        ELSE v

\* index < 0 || index >= units.length
InvalidIndex(units, index) == index < 0 \/ index >= Len(units)

\* index === currentUnitIndex
SameIndex(index, current) == index = current

\* units[i] || unit
UnitAt(c, i) ==
    IF i >= 0 /\ i < Len(c.units) THEN c.units[i + 1] ELSE c.unit

\* ------------------------------------------------------------------------
\* Bounds and inputs
\* ------------------------------------------------------------------------
\* Handler invocations (drag events, button presses, imperative calls) per run
MaxOps == 3

\* pageY of the top of the ruler on screen
PageTops == {R(100)}

\* Pointer offsets from the top of the ruler that drag events are tried at
DragOffsets(c) ==
    { R(-50), R(0), RMul(Q(137, 400), c.rulerHeight), RDiv(c.rulerHeight, R(2)),
      c.rulerHeight, RAdd(c.rulerHeight, R(50)) }

GrantOffsets(c) == { RDiv(c.rulerHeight, R(2)) }

ReleaseOffsets(c) == { RMul(Q(137, 400), c.rulerHeight), RAdd(c.rulerHeight, R(50)) }

\* Arguments setValue is tried with: 61.3 (off the step grid, below the
\* default range) and 175 (above the other ranges)
SetValueInputs == { Q(613, 10), R(175) }

\* Arguments switchUnit is tried with
SwitchUnitInputs == { -1, 0, 1, 2, 5 }

\* ------------------------------------------------------------------------
\* State
\* ------------------------------------------------------------------------
VARIABLES
    props,            \* the props the host passes
    refKind,          \* the ref the host passes: none, a ref object or a callback
    cfg,              \* resolved config of the latest render
    panCfg,           \* config captured by the PanResponder handlers at mount
    handleCfg,        \* config captured by the imperative handle
    value,            \* `value` of the latest render (what closures captured)
    currentUnitIndex, \* `currentUnitIndex` of the latest render
    stateValue,       \* React state of `value` (latest setValue, not yet rendered)
    stateUnitIndex,   \* React state of `currentUnitIndex`
    valueRef,         \* valueRef.current
    initialYRef,      \* initialYRef.current
    rulerTopYRef,     \* rulerTopYRef.current
    ticksRef,         \* ticksRef.current
    tickScaleMap,     \* tick value -> target of the tick's scaleX shared value
    cursorAnimY,      \* target of cursorAnimY
    dragging,         \* a drag is in progress (between grant and release)
    measureQueue,     \* results of measure() calls whose callback has not run
    pageTop,          \* where the ruler is on screen
    calls,            \* callbacks invoked by the latest handler, in order
    warned,           \* the latest handler called console.warn
    lastOp,           \* the latest handler, its argument and the state it ran in
    prevOp,           \* the handler before it
    nOps              \* number of handlers run

vars == << props, refKind, cfg, panCfg, handleCfg, value, currentUnitIndex, stateValue,
           stateUnitIndex, valueRef, initialYRef, rulerTopYRef, ticksRef,
           tickScaleMap, cursorAnimY, dragging, measureQueue, pageTop,
           calls, warned, lastOp, prevOp, nOps >>

configVars == << props, refKind, cfg, panCfg, handleCfg, ticksRef, pageTop >>
dragRefs == << initialYRef, rulerTopYRef, measureQueue >>

NoOp == [name |-> "mount", arg |-> R(0), value |-> R(0), unitIndex |-> 0]

\* A handler's name and argument, kept with what its closure read when it
\* ran: the rendered value and unit index, whether the render was up to date
\* with the React state (settled), and the recorded origin of the ruler
Op(name, arg) ==
    [ name |-> name, arg |-> arg,
      value |-> value, unitIndex |-> currentUnitIndex,
      settled |-> (stateValue = value /\ stateUnitIndex = currentUnitIndex),
      rulerTopY |-> rulerTopYRef ]

\* A variant that passes the rendered value instead of the new one
ValueCallStale(c, v) == [fn |-> c.onValueChange, kind |-> "value", value |-> value]

ValueCall(c, v) == [fn |-> c.onValueChange, kind |-> "value", value |-> v]
UnitCall(c, u, i) == [fn |-> c.onUnitChange, kind |-> "unit", unit |-> u, index |-> i]

SwitchUnitCallsUnitFirst(c, convertedValue, index) ==
    << [fn |-> c.onUnitChange, kind |-> "unit", unit |-> c.units[index + 1],
        index |-> index],
       [fn |-> c.onValueChange, kind |-> "value", value |-> convertedValue] >>

\* onValueChange?.(convertedValue); onUnitChange?.(targetUnit, index)
SwitchUnitCalls(c, convertedValue, index) ==
    << ValueCall(c, convertedValue), UnitCall(c, c.units[index + 1], index) >>

Record(name, arg) ==
    /\ nOps < MaxOps
    /\ nOps' = nOps + 1
    /\ lastOp' = Op(name, arg)
    /\ prevOp' = [name |-> lastOp.name, arg |-> lastOp.arg, value |-> lastOp.value,
                   unitIndex |-> lastOp.unitIndex]

\* ------------------------------------------------------------------------
\* Mount
\* ------------------------------------------------------------------------
Mount ==
    /\ cfg = Merge(props)
    /\ panCfg = cfg
    /\ handleCfg = cfg
    /\ pageTop \in PageTops
    /\ value = cfg.minValue
    /\ stateValue = cfg.minValue
    /\ currentUnitIndex = cfg.defaultUnitIndex
    /\ stateUnitIndex = cfg.defaultUnitIndex
    /\ valueRef = cfg.minValue
    /\ initialYRef = R(0)
    /\ rulerTopYRef = R(0)
    /\ ticksRef = Ticks(cfg)
    /\ tickScaleMap = [tv \in TickValues(Ticks(cfg)) |-> R(1)]
    /\ cursorAnimY = R(0)
    /\ dragging = FALSE
    /\ measureQueue = << >>
    /\ calls = << >>
    /\ warned = FALSE
    /\ lastOp = NoOp
    /\ prevOp = NoOp
    /\ nOps = 0

\* Mounted with a ref object, as the README does for the imperative methods
Init ==
    /\ props \in Props
    /\ refKind = "object"
    /\ Mount

\* ------------------------------------------------------------------------
\* Re-render: the queued state becomes the state the closures capture; the
\* effect on [value] copies it into valueRef, and the handle is rebuilt
\* (value and currentUnitIndex are in its dependency list)
\* ------------------------------------------------------------------------
Render ==
    /\ stateValue # value \/ stateUnitIndex # currentUnitIndex
    /\ value' = stateValue
    /\ currentUnitIndex' = stateUnitIndex
    /\ valueRef' = IF stateValue # value THEN stateValue ELSE valueRef
    /\ handleCfg' = cfg
    /\ UNCHANGED << props, refKind, cfg, panCfg, ticksRef, pageTop, dragRefs,
                    stateValue, stateUnitIndex, tickScaleMap,
                    cursorAnimY, dragging, calls, warned, lastOp, prevOp, nOps >>

\* ------------------------------------------------------------------------
\* Step commands: the body shared by increment()/decrement() of the handle
\* (closure config c = handleCfg) and handleIncrement/handleDecrement (c = cfg)
\* ------------------------------------------------------------------------
StepTo(c, newValue) ==
    LET newPosition == PositionOf(c, newValue)
    IN  /\ stateValue' = newValue
        /\ valueRef' = newValue
        /\ calls' = << ValueCall(c, newValue) >>
        /\ cursorAnimY' = newPosition
        /\ tickScaleMap' = UpdateTickScales(c, ticksRef, tickScaleMap, newPosition)
        /\ warned' = FALSE
        /\ UNCHANGED << configVars, dragRefs, value, currentUnitIndex,
                        stateUnitIndex, dragging >>

Increment ==
    /\ Record("increment", R(0))
    /\ StepTo(handleCfg, IncrementValue(handleCfg, value))

Decrement ==
    /\ Record("decrement", R(0))
    /\ StepTo(handleCfg, DecrementValue(handleCfg, value))

HandleIncrement ==
    /\ cfg.enableButtons
    /\ Record("handleIncrement", R(0))
    /\ StepTo(cfg, IncrementValue(cfg, value))

HandleDecrement ==
    /\ cfg.enableButtons
    /\ Record("handleDecrement", R(0))
    /\ StepTo(cfg, DecrementValue(cfg, value))

\* setValue(newValue) of the handle
SetValue ==
    \E newValue \in SetValueInputs :
        /\ Record("setValue", newValue)
        /\ StepTo(handleCfg, ClampValue(handleCfg, newValue))

\* getValue() and getCurrentUnit() of the handle
GetValue == value
GetCurrentUnit == UnitAt(handleCfg, currentUnitIndex)

\* The body of switchUnit(index) of the handle
DoSwitchUnit(index) ==
    IF InvalidIndex(handleCfg.units, index)
    THEN /\ warned' = TRUE
         /\ calls' = << >>
         /\ UNCHANGED << configVars, dragRefs, value, currentUnitIndex,
                         stateValue, stateUnitIndex, valueRef,
                         tickScaleMap, cursorAnimY, dragging >>
    ELSE IF SameIndex(index, currentUnitIndex)
    THEN /\ warned' = FALSE
         /\ calls' = << >>
         /\ UNCHANGED << configVars, dragRefs, value, currentUnitIndex,
                         stateValue, stateUnitIndex, valueRef,
                         tickScaleMap, cursorAnimY, dragging >>
    ELSE LET c == handleCfg
             convertedValue ==
                 ClampValue(c, ConvertedValue(c.units, currentUnitIndex, index, value))
             newPosition == PositionOf(c, convertedValue)
         IN  /\ stateValue' = convertedValue
             /\ valueRef' = convertedValue
             /\ stateUnitIndex' = index
             /\ cursorAnimY' = newPosition
             /\ tickScaleMap' =
                    UpdateTickScales(c, ticksRef, tickScaleMap, newPosition)
             /\ calls' = SwitchUnitCalls(c, convertedValue, index)
             /\ warned' = FALSE
             /\ UNCHANGED << configVars, dragRefs, value, currentUnitIndex,
                             dragging >>

\* switchUnit(index) called by the host through the handle
SwitchUnit ==
    \E index \in SwitchUnitInputs :
        /\ Record("switchUnit", R(index))
        /\ DoSwitchUnit(index)

\* ref && ref.current?.switchUnit(index): only a ref object has the handle
\* in `current`; without a ref, or with a callback ref, nothing is called
RefHasHandle(kind) == kind = "object"

\* A unit button of the unit switcher is pressed
PressUnitButton ==
    \E index \in 0..(Len(cfg.units) - 1) :
        /\ cfg.showUnitSwitcher
        /\ Len(cfg.units) > 0
        /\ Record("pressUnit", R(index))
        /\ IF RefHasHandle(refKind)
           THEN DoSwitchUnit(index)
           ELSE /\ calls' = << >>
                /\ warned' = FALSE
                /\ UNCHANGED << configVars, dragRefs, value, currentUnitIndex,
                                stateValue, stateUnitIndex, valueRef,
                                tickScaleMap, cursorAnimY, dragging >>

\* ------------------------------------------------------------------------
\* Drag: the PanResponder handlers created at mount (closure config panCfg)
\* ------------------------------------------------------------------------
OnPanResponderGrant ==
    \E d \in GrantOffsets(panCfg) :
        LET pageY == RAdd(pageTop, d)
        IN  /\ ~dragging
            /\ Record("grant", pageY)
            /\ dragging' = TRUE
            /\ measureQueue' = Append(measureQueue, pageTop)
            /\ initialYRef' = pageY
            /\ calls' = << >>
            /\ warned' = FALSE
            /\ UNCHANGED << configVars, rulerTopYRef, value, currentUnitIndex,
                            stateValue, stateUnitIndex, valueRef, tickScaleMap,
                            cursorAnimY >>

\* The callback passed to rulerRef.current.measure runs
MeasureCallback ==
    /\ measureQueue # << >>
    /\ rulerTopYRef' = Head(measureQueue)
    /\ measureQueue' = Tail(measureQueue)
    /\ UNCHANGED << configVars, initialYRef, value, currentUnitIndex, stateValue,
                    stateUnitIndex, valueRef, tickScaleMap, cursorAnimY, dragging,
                    calls, warned, lastOp, prevOp, nOps >>

OnPanResponderMove ==
    \E d \in DragOffsets(panCfg) :
        LET c == panCfg
            pageY == RAdd(pageTop, d)
            clampedDrag == ClampedDrag(c, pageY, rulerTopYRef)
            steppedValue == SteppedValue(c, RawValue(c, clampedDrag))
            newPosition == DragPosition(c, clampedDrag)
        IN  /\ dragging
            /\ Record("move", pageY)
            /\ cursorAnimY' = newPosition
            /\ tickScaleMap' = UpdateTickScales(c, ticksRef, tickScaleMap, newPosition)
            /\ stateValue' = steppedValue
            /\ calls' = << ValueCall(c, steppedValue) >>
            /\ warned' = FALSE
            /\ UNCHANGED << configVars, dragRefs, value, currentUnitIndex,
                            stateUnitIndex, valueRef, dragging >>

OnPanResponderRelease ==
    \E d \in ReleaseOffsets(panCfg) :
        LET c == panCfg
            pageY == RAdd(pageTop, d)
            clampedDrag == ClampedDrag(c, pageY, rulerTopYRef)
            steppedValue == SteppedValue(c, RawValue(c, clampedDrag))
            newPosition == DragPosition(c, clampedDrag)
        IN  /\ dragging
            /\ Record("release", pageY)
            /\ dragging' = FALSE
            /\ valueRef' = steppedValue
            /\ stateValue' = steppedValue
            /\ calls' = << ValueCall(c, steppedValue) >>
            /\ cursorAnimY' = newPosition
            /\ tickScaleMap' = ResetTickScales(ticksRef, tickScaleMap)
            /\ warned' = FALSE
            /\ UNCHANGED << configVars, dragRefs, value, currentUnitIndex,
                            stateUnitIndex >>

Next ==
    \/ Render
    \/ Increment
    \/ Decrement
    \/ HandleIncrement
    \/ HandleDecrement
    \/ SetValue
    \/ SwitchUnit
    \/ OnPanResponderGrant
    \/ MeasureCallback
    \/ OnPanResponderMove
    \/ OnPanResponderRelease

Spec == Init /\ [][Next]_vars

\* ------------------------------------------------------------------------
\* The unit switcher: mounted as the README does (showUnitSwitcher, default
\* range and units), with each kind of ref the host can pass
\* ------------------------------------------------------------------------
RefKinds == {"none", "object", "callback"}

SwitcherProps == { [showUnitSwitcher |-> TRUE, defaultUnitIndex |-> 0] }

InitSwitcher ==
    /\ props \in SwitcherProps
    /\ refKind \in RefKinds
    /\ Mount

NextSwitcher ==
    \/ Next
    \/ PressUnitButton

SpecSwitcher == InitSwitcher /\ [][NextSwitcher]_vars

TypeOK ==
    /\ cfg \in Configs
    /\ ValidConfig(cfg)
    /\ nOps \in 0..MaxOps

\* ------------------------------------------------------------------------
\* The host re-renders the component with other props
\* ------------------------------------------------------------------------
\* The props in the dependency list of useImperativeHandle (value and
\* currentUnitIndex, also in it, are state)
HandleDeps(c) ==
    << c.step, c.minValue, c.maxValue, c.rulerHeight, c.onValueChange,
       c.onUnitChange, c.units, c.unit >>

\* The scale map after the tick components of a render ran: a tick that was
\* not in the list before is a new component, which registers a scale of 1
\* under its value; the others keep theirs, and no entry is ever removed
RegisterTicks(old, new, m) ==
    [tv \in DOMAIN m \cup TickValues(new) |->
        IF tv \in TickValues(new) /\ tv \notin TickValues(old) THEN R(1) ELSE m[tv]]

\* The props the host changes to: magnification switched off, another
\* onValueChange function, a ruler half as long
PropChanges ==
    { [enableMagnification |-> FALSE],
      [onValueChange |-> "onValueChange2"],
      [rulerHeight |-> R(200)] }

\* The component is rendered again with props p of the set changes
ChangePropsTo(changes) ==
    \E p \in changes :
        LET c == Merge(p)
            stateChanged == stateValue # value \/ stateUnitIndex # currentUnitIndex
        IN  /\ p # props
            /\ Record("props", R(0))
            /\ props' = p
            /\ cfg' = c
            /\ value' = stateValue
            /\ currentUnitIndex' = stateUnitIndex
            /\ valueRef' = IF stateValue # value THEN stateValue ELSE valueRef
            /\ handleCfg' = IF stateChanged \/ HandleDeps(c) # HandleDeps(cfg)
                            THEN c
                            ELSE handleCfg
            /\ ticksRef' = Ticks(c)
            /\ tickScaleMap' = RegisterTicks(ticksRef, Ticks(c), tickScaleMap)
            /\ calls' = << >>
            /\ warned' = FALSE
            /\ UNCHANGED << refKind, panCfg, pageTop, dragRefs, stateValue,
                            stateUnitIndex, cursorAnimY, dragging >>

ChangeProps == ChangePropsTo(PropChanges)

\* Mounted with the default configuration
InitDefault ==
    /\ props = [enableButtons |-> TRUE]
    /\ refKind = "object"
    /\ Mount

\* The component with the default configuration and props that never change
SpecDefault == InitDefault /\ [][Next]_vars

NextRerender ==
    \/ Next
    \/ ChangeProps

SpecRerender == InitDefault /\ [][NextRerender]_vars

\* ------------------------------------------------------------------------
\* Tick generation: the component rendered with ranges and tick intervals
\* of every shape (maxValue on or off the tick grid, a negative minValue, a
\* fractional interval, an interval longer than the range)
\* ------------------------------------------------------------------------
TickProps ==
    { [minValue |-> R(a), maxValue |-> R(b), tickInterval |-> t,
       rulerHeight |-> R(90)] :
          a \in {-4, 1}, b \in {6, 10}, t \in {Q(3, 2), R(4), R(20)} }

ChangeTicks == ChangePropsTo(TickProps)

InitTicks ==
    /\ props \in TickProps
    /\ refKind = "object"
    /\ Mount

NextTicks == ChangeTicks

SpecTicks == InitTicks /\ [][NextTicks]_vars

\* ------------------------------------------------------------------------
\* Rounding ties: the component mounted with ranges whose middle, where
\* drags are tried, is an odd multiple of half a step, below and above zero
\* ------------------------------------------------------------------------
TieProps ==
    { [minValue |-> R(-7), maxValue |-> R(1), step |-> R(2),
       rulerHeight |-> R(100), tickInterval |-> R(4)],
      [minValue |-> R(1), maxValue |-> R(9), step |-> R(2),
       rulerHeight |-> R(100), tickInterval |-> R(4)] }

InitTies ==
    /\ props \in TieProps
    /\ refKind = "object"
    /\ Mount

SpecTies == InitTies /\ [][Next]_vars

\* ------------------------------------------------------------------------
\* Properties
\* ------------------------------------------------------------------------
InRange(c, v) == RLe(c.minValue, v) /\ RLe(v, c.maxValue)

\* v = minValue + k * step for an integer k >= 0
OnStepGrid(c, v) ==
    LET k == RDiv(RSub(v, c.minValue), c.step)
    IN  IsInt(k) /\ k[1] >= 0

ValuesNotified == {calls[i].value : i \in {j \in DOMAIN calls : calls[j].kind = "value"}}

IsDragOp == lastOp.name \in {"move", "release"}

\* C1: for a valid configuration the current value (as rendered and as last
\* committed) and every value passed to onValueChange lie in
\* [minValue, maxValue], whatever handlers have run.
C1_ValuesInRange ==
    ValidConfig(cfg) =>
        /\ InRange(cfg, value)
        /\ InRange(cfg, stateValue)
        /\ \A v \in ValuesNotified : InRange(cfg, v)

\* C2: every value a drag-move or drag-end produces is minValue + k * step
\* for an integer k >= 0, also when minValue is no multiple of step.
C2_DragValueOnStepGrid ==
    IsDragOp =>
        /\ OnStepGrid(panCfg, stateValue)
        /\ \A v \in ValuesNotified : OnStepGrid(panCfg, v)

\* The pointer offset of the latest drag event from the recorded origin
DragOffset == RSub(lastOp.arg, lastOp.rulerTopY)

\* clamp(d, 0, length), written out
Saturated(c, d) ==
    IF RLt(d, R(0)) THEN R(0) ELSE IF RLt(c.rulerHeight, d) THEN c.rulerHeight ELSE d

\* maxValue - clamp(d, 0, length) / length * (maxValue - minValue)
LinearValue(c, d) ==
    RSub(c.maxValue,
         RDiv(RMul(Saturated(c, d), RSub(c.maxValue, c.minValue)), c.rulerHeight))

\* v is a multiple of step nearest to x
StepRounded(c, v, x) ==
    /\ IsInt(RDiv(v, c.step))
    /\ RLe(RAbs(RSub(v, x)), RDiv(c.step, R(2)))

BoundsOnStep(c) == IsInt(RDiv(c.minValue, c.step)) /\ IsInt(RDiv(c.maxValue, c.step))

\* C3: when minValue and maxValue are multiples of step, a drag-move at
\* offset d from the origin commits the step-rounded value of
\* maxValue - clamp(d, 0, length)/length * (maxValue - minValue); d >= length
\* gives minValue and d <= 0 gives maxValue; for [150, 220], step 1, length
\* 400 the offsets 400, 0 and 200 give 150, 220 and 185.
C3_DragMoveMapsLinearly ==
    (lastOp.name = "move" /\ BoundsOnStep(panCfg)) =>
        /\ StepRounded(panCfg, stateValue, LinearValue(panCfg, DragOffset))
        /\ RLe(panCfg.rulerHeight, DragOffset) => stateValue = panCfg.minValue
        /\ RLe(DragOffset, R(0)) => stateValue = panCfg.maxValue
        /\ panCfg = DEFAULT_CONFIG =>
              /\ DragOffset = R(400) => stateValue = R(150)
              /\ DragOffset = R(0) => stateValue = R(220)
              /\ DragOffset = R(200) => stateValue = R(185)

\* A drag-move at the middle of the default ruler has committed 185
C3_Witness ==
    /\ lastOp.name = "move"
    /\ panCfg = DEFAULT_CONFIG
    /\ DragOffset = R(200)
    /\ stateValue = R(185)
    /\ calls = << ValueCall(panCfg, R(185)) >>

\* clamp(v, minValue, maxValue), written out
Clamped(c, v) ==
    IF RLt(v, c.minValue) THEN c.minValue ELSE IF RLt(c.maxValue, v) THEN c.maxValue ELSE v

IsIncrement == lastOp.name \in {"increment", "handleIncrement"}
IsDecrement == lastOp.name \in {"decrement", "handleDecrement"}

\* C4: increment() called while the current value (the one getValue()
\* returns) is maxValue commits maxValue and invokes onValueChange exactly
\* once, with maxValue; decrement() at minValue likewise with minValue; the
\* + and - buttons behave the same.
C4_StepAtBoundary ==
    /\ (IsIncrement /\ lastOp.value = cfg.maxValue) =>
          /\ stateValue = cfg.maxValue
          /\ calls = << ValueCall(cfg, cfg.maxValue) >>
    /\ (IsDecrement /\ lastOp.value = cfg.minValue) =>
          /\ stateValue = cfg.minValue
          /\ calls = << ValueCall(cfg, cfg.minValue) >>

\* increment() has run at maxValue, reached by setValue and a re-render
C4_Witness ==
    /\ lastOp.name = "increment"
    /\ prevOp.name = "setValue"
    /\ lastOp.value = cfg.maxValue
    /\ lastOp.settled
    /\ stateValue = cfg.maxValue
    /\ Len(calls) = 1

\* C5: setValue(v) commits clamp(v, minValue, maxValue), not snapped to the
\* step grid, and notifies onValueChange with it; an increment() that follows
\* once the component has re-rendered commits min(maxValue, clamp(v) + step).
\* With min 40, max 150, step 0.5: setValue(61.3) gives 61.3, then
\* increment() gives 61.8.
C5_SetValueThenIncrement ==
    /\ lastOp.name = "setValue" =>
          /\ stateValue = Clamped(cfg, lastOp.arg)
          /\ calls = << ValueCall(cfg, Clamped(cfg, lastOp.arg)) >>
    /\ (/\ lastOp.name = "increment"
        /\ prevOp.name = "setValue"
        /\ lastOp.settled) =>
          LET sum == RAdd(Clamped(cfg, prevOp.arg), cfg.step)
          IN  /\ stateValue = (IF RLt(cfg.maxValue, sum) THEN cfg.maxValue ELSE sum)
              /\ (/\ cfg.minValue = R(40) /\ cfg.maxValue = R(150)
                  /\ cfg.step = Q(1, 2) /\ prevOp.arg = Q(613, 10)) =>
                     /\ lastOp.value = Q(613, 10)
                     /\ stateValue = Q(618, 10)

\* setValue(61.3), a re-render, then increment() in the weight range
C5_Witness ==
    /\ cfg.minValue = R(40) /\ cfg.maxValue = R(150) /\ cfg.step = Q(1, 2)
    /\ lastOp.name = "increment"
    /\ prevOp.name = "setValue"
    /\ prevOp.arg = Q(613, 10)
    /\ lastOp.value = Q(613, 10)
    /\ lastOp.settled
    /\ stateValue = Q(618, 10)

\* The index the latest switchUnit was called with
SwitchIndex(op) == op.arg[1]

OutOfBounds(c, i) == i < 0 \/ i >= Len(c.units)

\* C6: switchUnit(index) with index outside [0, units.length) or equal to
\* the current unit index (the one getCurrentUnit() reports) changes nothing:
\* value, unit index, cursor target and tick scales stay, no callback is
\* invoked, getCurrentUnit() returns the prior unit; the out-of-bounds call
\* (and only it) warns.
C6_SwitchUnitNoop ==
    [][ (/\ nOps' = nOps + 1
         /\ lastOp'.name = "switchUnit"
         /\ \/ OutOfBounds(cfg, SwitchIndex(lastOp'))
            \/ SwitchIndex(lastOp') = currentUnitIndex)
        => /\ UNCHANGED << value, stateValue, valueRef, currentUnitIndex,
                           stateUnitIndex, cursorAnimY, tickScaleMap >>
           /\ calls' = << >>
           /\ GetValue' = GetValue
           /\ GetCurrentUnit' = GetCurrentUnit
           /\ warned' = OutOfBounds(cfg, SwitchIndex(lastOp')) ]_vars

\* switchUnit(5) on the three-entry registry, called after a setValue, left
\* the value that setValue committed and the current unit, and warned
C6_Witness ==
    /\ lastOp.name = "switchUnit"
    /\ SwitchIndex(lastOp) = 5
    /\ Len(cfg.units) = 3
    /\ warned
    /\ calls = << >>
    /\ prevOp.name = "setValue"
    /\ stateValue = Clamped(cfg, prevOp.arg)
    /\ stateValue # cfg.minValue
    /\ GetCurrentUnit = UnitAt(cfg, lastOp.unitIndex)

\* The same-index case: switchUnit(1) while unit 1 is current
C6_WitnessSameIndex ==
    /\ lastOp.name = "switchUnit"
    /\ SwitchIndex(lastOp) = 1
    /\ lastOp.unitIndex = 1
    /\ ~warned
    /\ calls = << >>

SuccessfulSwitch ==
    /\ lastOp.name = "switchUnit"
    /\ ~OutOfBounds(cfg, SwitchIndex(lastOp))
    /\ SwitchIndex(lastOp) # lastOp.unitIndex

\* The built-in conversions as factors, by source and target symbol
Factor(from, to) ==
    CASE from = "cm" /\ to = "in" -> Q(50, 127)
      [] from = "cm" /\ to = "ft" -> Q(25, 762)
      [] from = "in" /\ to = "cm" -> Q(127, 50)
      [] from = "in" /\ to = "ft" -> Q(1, 12)
      [] from = "ft" /\ to = "cm" -> Q(762, 25)
      [] from = "ft" /\ to = "in" -> R(12)
      [] OTHER -> R(1)

\* What the claim expects switchUnit(i) to commit from value v in unit u
ExpectedConversion(c, u, i, v) ==
    LET source == c.units[u + 1]
        target == c.units[i + 1]
    IN  Clamped(c, IF source.convertTo = NoConvert
                   THEN v
                   ELSE RMul(v, Factor(source.symbol, target.symbol)))

\* C7: switchUnit(index) with a valid index other than the current one
\* commits clamp(convert(currentValue), minValue, maxValue), convert being
\* the source unit's conversion applied with the target unit (identity when
\* the source unit has none), and sets the unit index to index.
C7_SwitchUnitConverts ==
    SuccessfulSwitch =>
        /\ stateValue =
              ExpectedConversion(cfg, lastOp.unitIndex, SwitchIndex(lastOp), lastOp.value)
        /\ stateUnitIndex = SwitchIndex(lastOp)

\* 150 cm switched to inches inside the range [40, 150]: 150 / 2.54
C7_Witness ==
    /\ SuccessfulSwitch
    /\ cfg.units = DefaultUnits
    /\ lastOp.unitIndex = 0
    /\ lastOp.value = R(150)
    /\ SwitchIndex(lastOp) = 1
    /\ stateValue = Q(7500, 127)
    /\ InRange(cfg, stateValue)
    /\ stateUnitIndex = 1

\* A source unit without convertTo: the value is carried over unchanged
C7_WitnessIdentity ==
    /\ SuccessfulSwitch
    /\ cfg.units[lastOp.unitIndex + 1].convertTo = NoConvert
    /\ stateValue = lastOp.value
    /\ stateUnitIndex = SwitchIndex(lastOp)

\* C8: a successful switchUnit invokes onValueChange exactly once, with the
\* converted and clamped value, and then onUnitChange exactly once, with the
\* target unit and index: the value callback comes first.
C8_ValueCallbackBeforeUnitCallback ==
    SuccessfulSwitch =>
        /\ Len(calls) = 2
        /\ calls[1].kind = "value"
        /\ calls[1].fn = cfg.onValueChange
        /\ calls[1].value = stateValue
        /\ calls[1].value =
              ExpectedConversion(cfg, lastOp.unitIndex, SwitchIndex(lastOp), lastOp.value)
        /\ calls[2].kind = "unit"
        /\ calls[2].fn = cfg.onUnitChange
        /\ calls[2].unit = cfg.units[SwitchIndex(lastOp) + 1]
        /\ calls[2].index = SwitchIndex(lastOp)

\* cm -> ft in the weight range: both callbacks have run, value first
C8_Witness ==
    /\ SuccessfulSwitch
    /\ SwitchIndex(lastOp) = 2
    /\ lastOp.unitIndex = 0
    /\ Len(calls) = 2
    /\ calls[1].kind = "value"
    /\ calls[2].kind = "unit"
    /\ calls[2].unit.symbol = "ft"

Tolerance == Q(1, 1000)

\* C9: with the built-in units and the default range, from 175 cm,
\* switchUnit(in) and then (after a re-render) switchUnit(cm) leave a value
\* within tolerance of 175.
C9_UnitRoundTrip ==
    (/\ cfg = DEFAULT_CONFIG
     /\ prevOp.name = "switchUnit" /\ SwitchIndex(prevOp) = 1
     /\ prevOp.unitIndex = 0 /\ prevOp.value = R(175)
     /\ lastOp.name = "switchUnit" /\ SwitchIndex(lastOp) = 0
     /\ lastOp.unitIndex = 1 /\ lastOp.settled)
    => RLe(RAbs(RSub(stateValue, R(175))), Tolerance)

\* C10: once a handler has returned, also before the re-render, getValue()
\* returns the value it passed to onValueChange and getCurrentUnit() the
\* unit it passed to onUnitChange.
C10_GettersSeeCommittedState ==
    \A i \in DOMAIN calls :
        /\ calls[i].kind = "value" => GetValue = calls[i].value
        /\ calls[i].kind = "unit" => GetCurrentUnit = calls[i].unit

\* C11: n consecutive increment() calls from value v leave min(maxValue,
\* v + n*step) whether or not the component re-renders between them, and n
\* decrement() calls leave max(minValue, v - n*step); stated for the first
\* two calls after mount, where v is minValue.
C11_StepsAccumulate ==
    /\ (nOps = 2 /\ prevOp.name = "increment" /\ lastOp.name = "increment") =>
          stateValue = Clamped(cfg, RAdd(cfg.minValue, RMul(R(2), cfg.step)))
    /\ (nOps = 2 /\ prevOp.name = "decrement" /\ lastOp.name = "decrement") =>
          stateValue = Clamped(cfg, RSub(cfg.minValue, RMul(R(2), cfg.step)))

\* C12: pressing the button of unit i of the unit switcher does what
\* switchUnit(i) does (the unit index becomes i, the value is the converted
\* and clamped one, onValueChange and then onUnitChange are called), with
\* no ref, a ref object or a callback ref.
C12_UnitButtonSwitches ==
    (/\ lastOp.name = "pressUnit"
     /\ SwitchIndex(lastOp) # lastOp.unitIndex) =>
        /\ stateUnitIndex = SwitchIndex(lastOp)
        /\ stateValue = ExpectedConversion(cfg, lastOp.unitIndex,
                                           SwitchIndex(lastOp), lastOp.value)
        /\ Len(calls) = 2
        /\ calls[1].kind = "value"
        /\ calls[2].kind = "unit"

\* C13: the resolved configuration is the deep merge of the defaults with
\* the props: a key of a nested group (colors, spacing, fontSize,
\* borderRadius, cursorProps) the host did not supply keeps its default, and
\* so does every top-level option the host did not supply.
C13_ConfigDeepMerge ==
    /\ \A g \in NestedGroups :
          \A k \in DOMAIN DEFAULT_CONFIG[g] :
              (g \notin DOMAIN props \/ k \notin DOMAIN props[g]) =>
                  /\ k \in DOMAIN cfg[g]
                  /\ cfg[g][k] = DEFAULT_CONFIG[g][k]
    /\ \A k \in DOMAIN DEFAULT_CONFIG \ NestedGroups :
          k \notin DOMAIN props => cfg[k] = DEFAULT_CONFIG[k]

AllScalesOne == \A tv \in DOMAIN tickScaleMap : tickScaleMap[tv] = R(1)

\* A tick whose distance from the cursor target is below the radius
TickNearCursor(c) ==
    \E i \in DOMAIN ticksRef :
        RLt(RAbs(RSub(ticksRef[i].position, cursorAnimY)), c.magnificationRadius)

\* C14: mounted with enableMagnification = false, the target scale of every
\* tick is 1 in every reachable state.
C14_NoMagnificationScalesOne ==
    ~panCfg.enableMagnification => AllScalesOne

\* Magnification is off and a drag-move has put the cursor near a tick
C14_Witness ==
    /\ ~panCfg.enableMagnification
    /\ lastOp.name = "move"
    /\ TickNearCursor(panCfg)
    /\ AllScalesOne

\* The latest handler ran updateTickScales with the cursor target it set
UpdatedScales ==
    \/ lastOp.name \in {"increment", "decrement", "handleIncrement",
                        "handleDecrement", "setValue", "move"}
    \/ SuccessfulSwitch

\* Distance of tick i from the cursor target
TickDistance(i) == RAbs(RSub(ticksRef[i].position, cursorAnimY))

TickScale(i) == tickScaleMap[ticksRef[i].value]

\* maxScale - d * (maxScale - 1) / radius, the falloff from maxScale at d = 0
Falloff(c, d) ==
    RSub(c.maxScale, RDiv(RMul(d, RSub(c.maxScale, R(1))), c.magnificationRadius))

\* C15: with magnification enabled and maxScale >= 1, the scale updateTickScales
\* gives a tick at distance d from the cursor is 1 when d >= magnificationRadius
\* and 1 + (1 - d/magnificationRadius) * (maxScale - 1) otherwise: maxScale at
\* d = 0, within [1, maxScale], and never larger for a tick farther away (a
\* tick with a larger scale is strictly closer).
C15_ScaleFalloff ==
    (UpdatedScales /\ cfg.enableMagnification /\ RLe(R(1), cfg.maxScale)) =>
        LET scaleAt == {<<TickDistance(i), TickScale(i)>> : i \in DOMAIN ticksRef}
        IN  /\ \A p \in scaleAt :
                  /\ p[2] = IF RLe(cfg.magnificationRadius, p[1])
                            THEN R(1)
                            ELSE Falloff(cfg, p[1])
                  /\ p[1] = R(0) => p[2] = cfg.maxScale
                  /\ RLe(R(1), p[2]) /\ RLe(p[2], cfg.maxScale)
            /\ \A p, q \in scaleAt : RLt(p[2], q[2]) => RLt(q[1], p[1])

\* The cursor is on one tick (scale maxScale), another tick is inside the
\* radius with a scale strictly between, and a third is outside it
C15_Witness ==
    /\ UpdatedScales /\ cfg.enableMagnification
    /\ \E i, j, k \in DOMAIN ticksRef :
          /\ TickDistance(i) = R(0) /\ TickScale(i) = cfg.maxScale
          /\ RLt(R(1), TickScale(j)) /\ RLt(TickScale(j), cfg.maxScale)
          /\ RLe(cfg.magnificationRadius, TickDistance(k)) /\ TickScale(k) = R(1)

\* C16: at mount the value is minValue, the unit index is defaultUnitIndex,
\* every tick's target scale is 1 and the cursor position is the projection
\* of the value (the full length for minValue).
C16_InitialState ==
    nOps = 0 =>
        /\ value = cfg.minValue
        /\ stateValue = cfg.minValue
        /\ currentUnitIndex = cfg.defaultUnitIndex
        /\ AllScalesOne
        /\ cursorAnimY = PositionOf(cfg, value)
        /\ cursorAnimY = cfg.rulerHeight

\* C17: a drag-move or drag-end at the position of a step-grid value v
\* (offset (maxValue - v)/(maxValue - minValue)*length from the origin, v =
\* minValue + k*step within the range) commits exactly v.
C17_PositionValueRoundTrip ==
    (/\ IsDragOp
     /\ RLe(R(0), DragOffset) /\ RLe(DragOffset, panCfg.rulerHeight)
     /\ OnStepGrid(panCfg, LinearValue(panCfg, DragOffset))) =>
        /\ DragOffset = PositionOf(panCfg, LinearValue(panCfg, DragOffset))
        /\ stateValue = LinearValue(panCfg, DragOffset)

\* C18: once a drag has ended the cursor target is the projection of the
\* committed value, (maxValue - value)/(maxValue - minValue)*length.
C18_CursorFollowsValueAfterDrag ==
    lastOp.name = "release" => cursorAnimY = PositionOf(panCfg, stateValue)

\* C19: every drag-move and drag-end commits the value derived from the
\* pointer's offset from where the ruler is when the drag starts (the origin
\* the drag-start asked to be measured), whenever the measurement arrives.
C19_DragUsesOwnOrigin ==
    IsDragOp =>
        /\ lastOp.rulerTopY = pageTop
        /\ stateValue =
              SteppedValue(panCfg, RawValue(panCfg, ClampedDrag(panCfg, lastOp.arg, pageTop)))

HandlerStep(n) == nOps' = nOps + 1 /\ lastOp'.name = n

\* C21: within one drag, a drag-move at the pointer coordinate of the
\* drag-move before it commits and notifies the same value and sets the
\* same cursor target.
C21_DragMoveIdempotent ==
    [][(HandlerStep("move") /\ lastOp.name = "move" /\ lastOp'.arg = lastOp.arg) =>
          /\ stateValue' = stateValue
          /\ calls' = calls
          /\ cursorAnimY' = cursorAnimY]_vars

\* C22: a drag-move or drag-end maps the pointer with the range and length
\* of the latest render, the ones the ticks are generated with, also after
\* the host changed them: the committed value is the step-rounded value of
\* maxValue - clamp(d, 0, length)/length * (maxValue - minValue) for the
\* current props, and the cursor target is clamp(d, 0, length).
C22_DragUsesCurrentRange ==
    (IsDragOp /\ BoundsOnStep(cfg)) =>
        /\ ticksRef = Ticks(cfg)
        /\ StepRounded(cfg, stateValue, LinearValue(cfg, DragOffset))
        /\ cursorAnimY = Saturated(cfg, DragOffset)

\* length - (v - minValue) * length / (maxValue - minValue)
Projection(c, v) ==
    RSub(c.rulerHeight,
         RDiv(RMul(RSub(v, c.minValue), c.rulerHeight), RSub(c.maxValue, c.minValue)))

\* C23: the tick list has the values minValue, minValue + tickInterval, ...
\* up to the largest one <= maxValue, in strictly increasing order; the
\* position of a tick is (maxValue - value)/(maxValue - minValue)*length, so
\* positions strictly decrease within [0, length] from length for the first
\* tick; maxValue is a tick iff (maxValue - minValue) is a multiple of
\* tickInterval.
C23_TickList ==
    LET n == Len(ticksRef)
        last == ticksRef[n]
    IN  /\ n >= 1
        /\ ticksRef[1].position = cfg.rulerHeight
        /\ \A i \in 1..n :
              /\ ticksRef[i].value = RAdd(cfg.minValue, RMul(R(i - 1), cfg.tickInterval))
              /\ ticksRef[i].position = Projection(cfg, ticksRef[i].value)
              /\ RLe(R(0), ticksRef[i].position)
              /\ RLe(ticksRef[i].position, cfg.rulerHeight)
              /\ i < n => /\ RLt(ticksRef[i].value, ticksRef[i + 1].value)
                          /\ RLt(ticksRef[i + 1].position, ticksRef[i].position)
        /\ RLe(last.value, cfg.maxValue)
        /\ RLt(cfg.maxValue, RAdd(last.value, cfg.tickInterval))
        /\ (last.value = cfg.maxValue) <=>
              IsInt(RDiv(RSub(cfg.maxValue, cfg.minValue), cfg.tickInterval))

\* After a change of props: seven ticks at a fractional interval, the last
\* of them on maxValue
C23_Witness ==
    /\ nOps > 0
    /\ ~IsInt(cfg.tickInterval)
    /\ Len(ticksRef) = 7
    /\ ticksRef[Len(ticksRef)].value = cfg.maxValue
    /\ ticksRef[Len(ticksRef)].position = R(0)

\* After a change of props: ticks from a negative minValue, maxValue is
\* off the tick grid and is no tick
C23_WitnessOffGrid ==
    /\ nOps > 0
    /\ RLt(cfg.minValue, R(0))
    /\ Len(ticksRef) = 3
    /\ RLt(ticksRef[3].value, cfg.maxValue)
    /\ RLt(R(0), ticksRef[3].position)

\* The raw value of the latest drag event in steps, and whether it is k + 1/2
RawSteps == RDiv(LinearValue(panCfg, DragOffset), panCfg.step)

IsTie == IsDragOp /\ IsInt(RSub(RawSteps, Q(1, 2)))

\* C24 as stated: a drag whose raw value is exactly k + 1/2 steps commits
\* the multiple of step farther from zero: (k+1)*step for k >= 0, k*step
\* for a negative raw value.
C24_TiesAwayFromZero ==
    IsTie =>
        stateValue = IF RLe(R(0), RawSteps)
                     THEN RMul(R(RFloor(RawSteps) + 1), panCfg.step)
                     ELSE RMul(R(RFloor(RawSteps)), panCfg.step)

\* C24, amended: a drag whose raw value is exactly k + 1/2 steps commits
\* (k+1)*step, the multiple of step above it, for negative k as well.
C24_TiesRoundUp ==
    IsTie => stateValue = RMul(R(RFloor(RawSteps) + 1), panCfg.step)

\* A drag at the middle of [-7, 1] with step 2: raw value -3, -1.5 steps
C24_Witness ==
    /\ IsTie
    /\ RawSteps = Q(-3, 2)
    /\ stateValue = R(-2)
    /\ calls = << ValueCall(panCfg, R(-2)) >>

\* A drag at the middle of [1, 9] with step 2: raw value 5, 2.5 steps
C24_WitnessPositive ==
    /\ IsTie
    /\ RawSteps = Q(5, 2)
    /\ stateValue = R(6)

\* What the + or - button commits from the current state for the new value v
ButtonOutcome(v) ==
    /\ stateValue' = v
    /\ cursorAnimY' = PositionOf(cfg, v)
    /\ tickScaleMap' = UpdateTickScales(cfg, ticksRef, tickScaleMap, PositionOf(cfg, v))
    /\ calls' = << ValueCall(cfg, v) >>

\* C25: from any state, also after the host changed props, increment()
\* produces the value, cursor target, tick scales and notification the +
\* button produces from that state, and decrement() those of the - button.
C25_HandleMatchesButtons ==
    [][/\ HandlerStep("increment") => ButtonOutcome(IncrementValue(cfg, value))
       /\ HandlerStep("decrement") => ButtonOutcome(DecrementValue(cfg, value))]_vars

\* C27: every drag-move and drag-end calls the onValueChange function of
\* the latest render, also after the host supplied another one, and never
\* one the host has replaced.
C27_DragCallsCurrentCallback ==
    IsDragOp =>
        /\ calls # << >>
        /\ \A i \in DOMAIN calls : calls[i].fn = cfg.onValueChange

\* The latest handler is a step command, setValue or a switchUnit that switched
IsCommand ==
    \/ lastOp.name \in {"increment", "decrement", "handleIncrement",
                        "handleDecrement", "setValue"}
    \/ SuccessfulSwitch

\* C26: after increment, decrement, setValue or a successful switchUnit with
\* magnification enabled, the cursor target is the projection of the new
\* value and every tick has the scale of the magnification formula at its
\* distance from that position: above 1 within the radius (for maxScale > 1),
\* 1 outside it; nothing is reset to 1.
C26_CommandsMagnifyAtNewValue ==
    (IsCommand /\ cfg.enableMagnification) =>
        LET target == Projection(cfg, stateValue)
        IN  /\ cursorAnimY = target
            /\ \A i \in DOMAIN ticksRef :
                  LET d == RAbs(RSub(ticksRef[i].position, target))
                  IN  IF RLt(d, cfg.magnificationRadius)
                      THEN /\ TickScale(i) = Falloff(cfg, d)
                           /\ RLt(R(1), cfg.maxScale) => RLt(R(1), TickScale(i))
                      ELSE TickScale(i) = R(1)

\* increment() has run from the default minimum: the cursor is at the
\* projection of 151 and the tick at 150 is magnified
C26_Witness ==
    /\ lastOp.name = "increment"
    /\ cfg.enableMagnification
    /\ stateValue = RAdd(cfg.minValue, cfg.step)
    /\ cursorAnimY = Projection(cfg, stateValue)
    /\ RLt(R(1), tickScaleMap[cfg.minValue])
    /\ \E tv \in DOMAIN tickScaleMap : tickScaleMap[tv] = R(1)

\* The callbacks of this step are one onValueChange call with the value the
\* step committed
NotifiesCommitted ==
    /\ Len(calls') = 1
    /\ calls'[1].kind = "value"
    /\ calls'[1].fn = cfg.onValueChange
    /\ calls'[1].value = stateValue'

\* This step is a switchUnit with a valid index other than the current one
SwitchingStep ==
    /\ HandlerStep("switchUnit")
    /\ ~OutOfBounds(cfg, SwitchIndex(lastOp'))
    /\ SwitchIndex(lastOp') # currentUnitIndex

\* C28: drag-move, drag-end, increment, decrement, setValue (and the +/-
\* buttons) call onValueChange exactly once, with the value they commit; a
\* successful switchUnit calls it once with the value it commits and then
\* onUnitChange; a switchUnit that does nothing and drag-start call nothing
\* and commit nothing; nothing else commits a value or calls a callback, so
\* the last value notified is the value last committed.
C28_NotificationAccounting ==
    [][/\ (\E n \in {"move", "release", "increment", "decrement", "handleIncrement",
                      "handleDecrement", "setValue"} : HandlerStep(n))
            => NotifiesCommitted
       /\ SwitchingStep =>
              /\ Len(calls') = 2
              /\ calls'[1].kind = "value" /\ calls'[1].value = stateValue'
              /\ calls'[2].kind = "unit"
       /\ ((HandlerStep("switchUnit") /\ ~SwitchingStep) \/ HandlerStep("grant")) =>
              /\ calls' = << >>
              /\ stateValue' = stateValue /\ valueRef' = valueRef
       /\ nOps' = nOps => (stateValue' = stateValue /\ calls' = calls)]_vars

\* setValue has run in the middle of a drag, right after the drag-start,
\* and notified the value it committed
C28_Witness ==
    /\ lastOp.name = "setValue"
    /\ prevOp.name = "grant"
    /\ dragging
    /\ Len(calls) = 1
    /\ calls[1].value = stateValue
    /\ stateValue # value

\* C29: for a valid configuration the cursor target lies in [0, length] in
\* every reachable state.
C29_CursorWithinRuler ==
    ValidConfig(cfg) =>
        /\ RLe(R(0), cursorAnimY)
        /\ RLe(cursorAnimY, cfg.rulerHeight)

\* A drag-move below the bottom of the ruler has left the cursor at length
C29_Witness ==
    /\ lastOp.name = "move"
    /\ RLt(panCfg.rulerHeight, DragOffset)
    /\ cursorAnimY = cfg.rulerHeight

\* setValue below the range has left the cursor at length
C29_WitnessSetValue ==
    /\ lastOp.name = "setValue"
    /\ RLt(lastOp.arg, cfg.minValue)
    /\ cursorAnimY = cfg.rulerHeight

\* C30: switchUnit never changes minValue, maxValue, step or the tick list,
\* and the value it commits lies in that range; drag-start, drag-move,
\* drag-end, increment, decrement and setValue (and the +/- buttons) never
\* change the unit index; the unit index changes only in a switchUnit with
\* a valid index other than the current one, to that index, so it stays a
\* valid index of the units whenever defaultUnitIndex is one.
C30_FrameConditions ==
    [][/\ HandlerStep("switchUnit") =>
              /\ cfg' = cfg /\ panCfg' = panCfg /\ handleCfg' = handleCfg
              /\ ticksRef' = ticksRef
              /\ SwitchingStep => InRange(cfg, stateValue')
       /\ (\E n \in {"grant", "move", "release", "increment", "decrement",
                      "handleIncrement", "handleDecrement", "setValue"} :
               HandlerStep(n))
            => stateUnitIndex' = stateUnitIndex
       /\ stateUnitIndex' # stateUnitIndex =>
              /\ SwitchingStep
              /\ stateUnitIndex' = SwitchIndex(lastOp')
       /\ ~OutOfBounds(cfg, cfg.defaultUnitIndex) =>
              /\ ~OutOfBounds(cfg, stateUnitIndex')
              /\ ~OutOfBounds(cfg, currentUnitIndex')]_vars

\* switchUnit(2) has run after a drag-move: the unit index is 2, the value
\* is in the range and the ticks are those of the configuration
C30_Witness ==
    /\ lastOp.name = "switchUnit"
    /\ prevOp.name = "move"
    /\ stateUnitIndex = 2
    /\ lastOp.unitIndex = 0
    /\ InRange(cfg, stateValue)
    /\ ticksRef = Ticks(cfg)

====
